---------------------------- MODULE Spec2Model ----------------------------
(***************************************************************************)
(* The polling and notification engine of epay-bot/bot.py: the dedup       *)
(* tables of OrderDatabase, the per-chat polling tasks of PaymentBot, the  *)
(* adaptive polling interval, and the two notification queues with their   *)
(* drain loops.                                                            *)
(*                                                                         *)
(* Scheduling follows asyncio: a coroutine runs without interruption from  *)
(* one await to the next, so every action below is the code between two    *)
(* awaits of one coroutine.  Callbacks that are already in the event       *)
(* loop's ready queue (the first step of a task just created, the delivery *)
(* of a CancelledError) run before timers and I/O completions: see Urgent. *)
(***************************************************************************)
EXTENDS Integers, Sequences, FiniteSets, TLC

\* ------------------------------------------------------------------ bounds
MaxTasks == 2   \* polling task objects of one chat alive at the same time
MaxAdhoc == 2   \* drain tasks spawned by poll cycles, per queue, alive at once
MaxItems == 4   \* notification items in the queues and drains at the same time
SentCap == 2    \* the sink's per-item message counter saturates here

\* ------------------------------------------------------- program constants
InitialInterval == 10   \* polling_intervals[chat_id] = 10
MinInterval == 5        \* max(5, interval // 2)
IdleCap == 30           \* min(30, interval + 5)
IdleStep == 5
ErrorCap == 60          \* min(60, interval * 2)
max_errors == 5
MaxRetries == 3         \* if retries <= 3
SuccessListed == 20     \* recent_success_orders[:20]

\* --------------------------------------------------------------- universes
Chats == {"A", "B"}               \* chat_id of the registered merchants
Cats == {"order", "settle"}       \* the two record categories
RecIds == [order |-> {"X1", "X2"}, settle |-> {"S1"}]
AllIds == RecIds.order \cup RecIds.settle
Slots == 1..MaxTasks
Drains == {0} \cup (1..MaxAdhoc)  \* 0: process_*_notifications_loop; others: spawned by a cycle
Uids == 1..MaxItems

\* status of a record in a gateway response: "0" pending, "1" paid, "bad" a
\* value int() raises on (None, "paid", ...)
Statuses == {"0", "1", "bad"}
Rec(id, st) == [id |-> id, status |-> st]

\* gateway responses of one category: every list of distinct records
Resp1(c) == {<<Rec(i, s)>> : i \in RecIds[c], s \in Statuses}
Resp2(c) ==
    {<<Rec(i, s), Rec(j, u)>> : i \in RecIds[c], j \in RecIds[c], s \in Statuses, u \in Statuses}
Responses(c) ==
    {<<>>} \cup Resp1(c) \cup {r \in Resp2(c) : r[1].id # r[2].id}

NoRow == [chat |-> "none", old |-> FALSE]
NoItem == [chat |-> "none", id |-> "none", retries |-> 0, uid |-> 0]
NoTask == [pc |-> "none", cancel |-> FALSE, errs |-> 0, nso |-> "unbound", nss |-> "unbound",
           key |-> "none"]
Idle == [op |-> "idle", chat |-> "none", slot |-> 0]
NoStop == [pc |-> "off", todo |-> {}, chat |-> "none", slot |-> 0]

VARIABLES
    running,            \* PaymentBot.running
    polling_active,     \* PaymentBot.polling_active: chat -> bool
    db_active,          \* table polling_status.active: chat -> bool
    polling_intervals,  \* PaymentBot.polling_intervals: chat -> seconds, 0: no entry
    last_recent,        \* chat -> category -> now - last_*_times[chat] <= 300
    polling_tasks,      \* PaymentBot.polling_tasks: chat -> slot of the tracked task, 0: no entry
    task,               \* chat -> slot -> the polling_loop coroutine in that slot
    notified,           \* tables notified_orders / notified_settlements: category -> id -> row
    queue,              \* category -> the deque of NotificationQueue / SettlementNotificationQueue
    processing,         \* category -> the queue's processing flag
    drain,              \* category -> drain task -> [pc, item]
    cleanup,            \* position of cleanup_loop
    handler,            \* the toggle_polling call in progress, or Idle
    merchant_info,      \* PaymentBot.merchant_info / table merchant_info: chat -> secret key
    delivered,          \* messaging sink: uid -> messages received for that item (saturating)
    lastEnq,            \* chat -> records enqueued by the chat's latest poll cycle (history)
    stopper,            \* the PaymentBot.stop call in progress, or NoStop
    seen                \* chat -> record id -> what became of its notification (history)

vars ==
    <<running, polling_active, db_active, polling_intervals, last_recent, polling_tasks, task,
      notified, queue, processing, drain, cleanup, handler, merchant_info, delivered, lastEnq, stopper, seen>>

botVars ==
    <<running, polling_active, db_active, polling_intervals, last_recent, polling_tasks, task,
      handler, merchant_info, stopper>>
queueVars == <<queue, processing, drain, delivered>>

Max(a, b) == IF a >= b THEN a ELSE b
Min(a, b) == IF a <= b THEN a ELSE b

\* ------------------------------------------------------------ OrderDatabase
\* SELECT 1 FROM notified_* WHERE <id> = ? AND chat_id = ?
is_notified(table, id, chat) == table[id] # NoRow /\ table[id].chat = chat

\* INSERT OR REPLACE INTO notified_* (<id>, chat_id): the id alone is the
\* PRIMARY KEY, so the row of the id is replaced, and notified_at is now.
mark_notified(table, id, chat) == [table EXCEPT ![id] = [chat |-> chat, old |-> FALSE]]

\* DELETE FROM notified_* WHERE notified_at < datetime('now', '-15 days')
clean_old_records(table) == [id \in DOMAIN table |-> IF table[id].old THEN NoRow ELSE table[id]]

\* ------------------------------------------------- the interval controller
\* a backoff that forgets its cap
BackoffNoCap(interval) == interval * 2

Halve(interval) == Max(MinInterval, interval \div 2)
Decay(interval) == Min(IdleCap, interval + IdleStep)
Backoff(interval) == Min(ErrorCap, interval * 2)

\* ------------------------------------------------------------ polling_loop
\* The for loop that filters one category of a response: the records selected
\* so far, the table after the marks made so far, and whether a record raised.
\* a filter that selects every record the chat has no row for, paid or not
RECURSIVE ScanAnyStatus(_, _, _, _)
ScanAnyStatus(chat, recs, table, sel) ==
    IF recs = <<>> THEN [table |-> table, sel |-> sel, raised |-> FALSE]
    ELSE LET r == Head(recs) IN
         IF r.status = "bad" THEN [table |-> table, sel |-> sel, raised |-> TRUE]
         ELSE IF ~is_notified(table, r.id, chat)
              THEN ScanAnyStatus(chat, Tail(recs), mark_notified(table, r.id, chat), Append(sel, r.id))
              ELSE ScanAnyStatus(chat, Tail(recs), table, sel)

RECURSIVE Scan(_, _, _, _)
Scan(chat, recs, table, sel) ==
    IF recs = <<>> THEN [table |-> table, sel |-> sel, raised |-> FALSE]
    ELSE LET r == Head(recs) IN
         IF r.status = "bad" THEN [table |-> table, sel |-> sel, raised |-> TRUE]
         ELSE IF r.status = "1" /\ ~is_notified(table, r.id, chat)
              THEN Scan(chat, Tail(recs), mark_notified(table, r.id, chat), Append(sel, r.id))
              ELSE Scan(chat, Tail(recs), table, sel)

\* what a later iteration of the loop sees in new_success_orders / new_success_settlements
ListState(sel) == IF sel = <<>> THEN "empty" ELSE "some"

RECURSIVE SetToSeq(_)
SetToSeq(S) ==
    IF S = {} THEN <<>>
    ELSE LET m == CHOOSE x \in S : \A y \in S : x <= y IN <<m>> \o SetToSeq(S \ {m})

SeqToSet(q) == {q[k] : k \in 1..Len(q)}

\* identities of the items that exist: in a deque, or popped by a drain
LiveUids ==
    UNION {{queue[c][k].uid : k \in 1..Len(queue[c])} : c \in Cats}
    \cup {drain[c][d].item.uid : c \in Cats, d \in Drains}
FreeUids == SetToSeq(Uids \ LiveUids)

\* the selected records taken last first
MkItemsReversed(chat, ids, uids) ==
    [k \in 1..Len(ids) |-> [chat |-> chat, id |-> ids[Len(ids) + 1 - k], retries |-> 0, uid |-> uids[k]]]

\* the dicts of the selected records; uids[k] is the identity of the k-th
MkItems(chat, ids, uids) ==
    [k \in 1..Len(ids) |-> [chat |-> chat, id |-> ids[k], retries |-> 0, uid |-> uids[k]]]

\* add_notification for every selected record
add_notifications(q, chat, ids, uids) == q \o MkItems(chat, ids, uids)

FreeAdhoc(dc) == {d \in 1..MaxAdhoc : dc[d].pc = "off"}

\* asyncio.create_task(queue.process_notifications(bot))
SpawnDrain(dc) ==
    LET d == CHOOSE d \in FreeAdhoc(dc) : \A e \in FreeAdhoc(dc) : d <= e
    IN  [dc EXCEPT ![d] = [pc |-> "call", item |-> NoItem]]

\* callbacks already in the ready queue of the event loop
UrgentTask(tk) == tk.pc = "start" \/ (tk.cancel /\ tk.pc \in {"fetch", "sleep"})
\* stop() can go on: the task it cancelled and awaits has ended
StopReady ==
    \/ stopper.pc \in {"order", "settle", "cleanup"}
    \/ stopper.pc = "polls" /\ task[stopper.chat][stopper.slot].pc = "none"
AnyUrgent ==
    \/ \E t \in Chats, i \in Slots : UrgentTask(task[t][i])
    \/ \E c \in Cats, d \in Drains : drain[c][d].pc = "call"
    \/ cleanup = "ready"
    \/ StopReady

\* the finally block of polling_loop
Finish(t, i) ==
    /\ task' = [task EXCEPT ![t][i] = NoTask]
    /\ polling_active' = [polling_active EXCEPT ![t] = FALSE]
    /\ db_active' = [db_active EXCEPT ![t] = FALSE]

\* a loop that keeps the key it read in its first iteration
credentials_of_first_cycle(t, tk) == IF tk.key = "none" THEN merchant_info[t] ELSE tk.key

\* merchant_data = self.merchant_info.get(chat_id, {}): the key that
\* get_orders is called with in this iteration
credentials(t, tk) == merchant_info[t]

\* a loop that gives up once a cycle has failed
EnterLoopUntilError(t, i, tk) ==
    IF polling_active[t] /\ tk.errs = 0
    THEN /\ task' = [task EXCEPT ![t][i] = [tk EXCEPT !.pc = "fetch", !.key = credentials(t, tk)]]
         /\ UNCHANGED <<polling_active, db_active>>
    ELSE Finish(t, i)

\* while self.polling_active.get(chat_id, False): ... up to await self.get_orders
EnterLoop(t, i, tk) ==
    IF polling_active[t]
    THEN /\ task' = [task EXCEPT ![t][i] = [tk EXCEPT !.pc = "fetch", !.key = credentials(t, tk)]]
         /\ UNCHANGED <<polling_active, db_active>>
    ELSE Finish(t, i)

\* first step of the coroutine: consecutive_errors = 0, then the loop
TaskStart(t, i) ==
    /\ task[t][i].pc = "start"
    /\ ~task[t][i].cancel
    /\ EnterLoop(t, i, [task[t][i] EXCEPT !.errs = 0])
    /\ UNCHANGED <<running, polling_intervals, last_recent, polling_tasks, handler, merchant_info, stopper, notified,
                   queue, processing, drain, cleanup, delivered, lastEnq, seen>>

\* asyncio.sleep(current_interval) returns
Wake(t, i) ==
    /\ ~AnyUrgent
    /\ task[t][i].pc = "sleep"
    /\ ~task[t][i].cancel
    /\ EnterLoop(t, i, task[t][i])
    /\ UNCHANGED <<running, polling_intervals, last_recent, polling_tasks, handler, merchant_info, stopper, notified,
                   queue, processing, drain, cleanup, delivered, lastEnq, seen>>

\* a queue whose drain keeps self.lock while it sends
lock_held_while_sending(c) == \E d \in Drains : drain[c][d].pc = "send"

\* self.lock of queue c is held by a suspended coroutine: never, no "async
\* with self.lock" block of add_notification or process_notifications awaits
lock_held(c) == FALSE

\* a cycle that stamps the time whether or not it found a record
DiscoveredEveryCycle(recent, found) == TRUE

\* self.last_order_times[chat_id] = time.time() under "if new_success_orders:"
\* (and its settlement twin): is the last discovery at most 300 s old
Discovered(recent, found) == recent \/ found

\* get_orders and get_settlements have returned `orders` and `settles`:
\* the rest of the loop body, up to asyncio.sleep(current_interval)
FetchReturn(t, i, orders, settles) ==
    LET tk == task[t][i]
        o == IF orders = <<>> THEN [table |-> notified.order, sel |-> <<>>, raised |-> FALSE]
             ELSE Scan(t, orders, notified.order, <<>>)
        nso == IF orders = <<>> THEN tk.nso ELSE ListState(o.sel)
        oFound == ~o.raised /\ o.sel # <<>>
        int1 == IF oFound THEN Halve(polling_intervals[t]) ELSE polling_intervals[t]
        sRuns == ~o.raised /\ settles # <<>>
        s == IF sRuns THEN Scan(t, settles, notified.settle, <<>>)
             ELSE [table |-> notified.settle, sel |-> <<>>, raised |-> FALSE]
        nss == IF sRuns THEN ListState(s.sel) ELSE tk.nss
        sFound == sRuns /\ ~s.raised /\ s.sel # <<>>
        int2 == IF sFound THEN Halve(int1) ELSE int1
        scanRaised == o.raised \/ s.raised
        \* if not new_success_orders and not new_success_settlements: a name
        \* no iteration has bound yet raises UnboundLocalError
        nameRaised == ~scanRaised /\ (nso = "unbound" \/ (nso = "empty" /\ nss = "unbound"))
        idle == /\ ~scanRaised
                /\ nso = "empty" /\ nss = "empty"
                /\ ~last_recent[t].order /\ ~last_recent[t].settle
        int3 == IF idle THEN Decay(int2) ELSE int2
        failed == scanRaised \/ nameRaised
        errs1 == IF failed THEN tk.errs + 1 ELSE 0
        tooMany == failed /\ errs1 >= max_errors
        int4 == IF tooMany THEN Backoff(int3) ELSE int3
        nO == IF oFound THEN Len(o.sel) ELSE 0
        nS == IF sFound THEN Len(s.sel) ELSE 0
    IN  /\ ~AnyUrgent
        /\ tk.pc = "fetch"
        /\ ~tk.cancel
        /\ nO + nS <= Len(FreeUids)
        /\ oFound => FreeAdhoc(drain.order) # {}
        /\ sFound => FreeAdhoc(drain.settle) # {}
        /\ oFound => ~lock_held("order")
        /\ sFound => ~lock_held("settle")
        /\ notified' = [order |-> o.table, settle |-> s.table]
        /\ queue' = [order |-> IF oFound THEN add_notifications(queue.order, t, o.sel, SubSeq(FreeUids, 1, nO))
                               ELSE queue.order,
                     settle |-> IF sFound THEN add_notifications(queue.settle, t, s.sel, SubSeq(FreeUids, nO + 1, nO + nS))
                                ELSE queue.settle]
        /\ drain' = [order |-> IF oFound THEN SpawnDrain(drain.order) ELSE drain.order,
                     settle |-> IF sFound THEN SpawnDrain(drain.settle) ELSE drain.settle]
        /\ delivered' = [u \in Uids |-> IF u \in SeqToSet(SubSeq(FreeUids, 1, nO + nS)) THEN 0
                                      ELSE delivered[u]]
        /\ last_recent' = [last_recent EXCEPT ![t] = [order |-> Discovered(@.order, oFound),
                                                       settle |-> Discovered(@.settle, sFound)]]
        /\ polling_intervals' = [polling_intervals EXCEPT ![t] = int4]
        /\ task' = [task EXCEPT ![t][i] = [pc |-> "sleep", cancel |-> FALSE,
                                           errs |-> IF tooMany THEN 0 ELSE errs1,
                                           nso |-> nso, nss |-> nss, key |-> tk.key]]
        /\ lastEnq' = [lastEnq EXCEPT ![t] =
                          (IF oFound THEN SeqToSet(o.sel) ELSE {})
                          \cup (IF sFound THEN SeqToSet(s.sel) ELSE {})]
        /\ seen' = [seen EXCEPT ![t] = [id \in AllIds |-> IF id \in lastEnq'[t] THEN "queued" ELSE @[id]]]
        /\ UNCHANGED <<running, polling_active, db_active, polling_tasks, handler, merchant_info, stopper, processing,
                       cleanup>>

\* task.cancel() has been called: CancelledError is raised at the await the
\* task is suspended in.  A task that never ran ends without running its body;
\* in asyncio.sleep the except / finally blocks run at once; inside
\* get_orders / get_settlements the "async with" blocks of the HTTP session
\* are left first, which may itself await (pc "closing").
CancelDeliver(t, i) ==
    /\ task[t][i].cancel
    /\ \/ /\ task[t][i].pc = "start"
          /\ task' = [task EXCEPT ![t][i] = NoTask]
          /\ UNCHANGED <<polling_active, db_active>>
       \/ /\ task[t][i].pc \in {"sleep", "fetch"}
          /\ Finish(t, i)
       \/ /\ task[t][i].pc = "fetch"
          /\ task' = [task EXCEPT ![t][i].pc = "closing"]
          /\ UNCHANGED <<polling_active, db_active>>
    /\ UNCHANGED <<running, polling_intervals, last_recent, polling_tasks, handler, merchant_info, stopper, notified,
                   queue, processing, drain, cleanup, delivered, lastEnq, seen>>

\* the session of a cancelled fetch is closed: except CancelledError, finally
CloseDone(t, i) ==
    /\ ~AnyUrgent
    /\ task[t][i].pc = "closing"
    /\ Finish(t, i)
    /\ UNCHANGED <<running, polling_intervals, last_recent, polling_tasks, handler, merchant_info, stopper, notified,
                   queue, processing, drain, cleanup, delivered, lastEnq, seen>>

\* ------------------------------------------- NotificationQueue and its twin
Exit(d) == IF d = 0 THEN "idle" ELSE "off"

\* a drain that reads the head of the deque and leaves it there
NextItemKeep(c, d, q) ==
    IF q = <<>>
    THEN /\ queue' = [queue EXCEPT ![c] = q]
         /\ processing' = [processing EXCEPT ![c] = FALSE]
         /\ drain' = [drain EXCEPT ![c][d] = [pc |-> Exit(d), item |-> NoItem]]
    ELSE /\ queue' = [queue EXCEPT ![c] = q]
         /\ processing' = [processing EXCEPT ![c] = TRUE]
         /\ drain' = [drain EXCEPT ![c][d] = [pc |-> "send", item |-> Head(q)]]

\* while self.queue: ... popleft(), up to await bot.send_message; with the
\* queue empty the finally block clears processing and the call returns
NextItem(c, d, q) ==
    IF q = <<>>
    THEN /\ queue' = [queue EXCEPT ![c] = q]
         /\ processing' = [processing EXCEPT ![c] = FALSE]
         /\ drain' = [drain EXCEPT ![c][d] = [pc |-> Exit(d), item |-> NoItem]]
    ELSE /\ queue' = [queue EXCEPT ![c] = Tail(q)]
         /\ processing' = [processing EXCEPT ![c] = TRUE]
         /\ drain' = [drain EXCEPT ![c][d] = [pc |-> "send", item |-> Head(q)]]

\* process_notifications without its "if self.processing: return"
process_notifications_unguarded(c, d) == NextItem(c, d, queue[c])

\* process_notifications(bot) from its first line
process_notifications(c, d) ==
    IF processing[c]
    THEN /\ drain' = [drain EXCEPT ![c][d] = [pc |-> Exit(d), item |-> NoItem]]
         /\ UNCHANGED <<queue, processing>>
    ELSE NextItem(c, d, queue[c])

\* first step of a drain task: of process_*_notifications_loop, or of a task
\* a poll cycle spawned
DrainCall(c, d) ==
    /\ drain[c][d].pc = "call"
    /\ IF d = 0 /\ ~running
       THEN /\ drain' = [drain EXCEPT ![c][d] = [pc |-> "off", item |-> NoItem]]
            /\ UNCHANGED <<queue, processing>>
       ELSE process_notifications(c, d)
    /\ UNCHANGED <<botVars, notified, cleanup, delivered, lastEnq, seen>>

\* process_*_notifications_loop: asyncio.sleep(1) returns, next iteration
LoopWake(c) ==
    /\ ~AnyUrgent
    /\ drain[c][0].pc = "idle"
    /\ IF ~running
       THEN /\ drain' = [drain EXCEPT ![c][0] = [pc |-> "off", item |-> NoItem]]
            /\ UNCHANGED <<queue, processing>>
       ELSE process_notifications(c, 0)
    /\ UNCHANGED <<botVars, notified, cleanup, delivered, lastEnq, seen>>

\* the same wake-up when asyncio.sleep(1) had returned before a poll cycle
\* called asyncio.create_task: the loop task is ahead of the new task in the
\* ready queue of the event loop
LoopWakeAhead(c) ==
    /\ drain[c][0].pc = "idle"
    /\ \E d \in 1..MaxAdhoc : drain[c][d].pc = "call"
    /\ IF ~running
       THEN /\ drain' = [drain EXCEPT ![c][0] = [pc |-> "off", item |-> NoItem]]
            /\ UNCHANGED <<queue, processing>>
       ELSE process_notifications(c, 0)
    /\ UNCHANGED <<botVars, notified, cleanup, delivered, lastEnq, seen>>

\* bot.send_message returns: the sink has the message; asyncio.sleep(1)
\* follows, with the sent dict still the loop's local
SendOk(c, d) ==
    /\ ~AnyUrgent
    /\ drain[c][d].pc = "send"
    /\ delivered' = [delivered EXCEPT ![drain[c][d].item.uid] = Min(SentCap, @ + 1)]
    /\ drain' = [drain EXCEPT ![c][d].pc = "sent"]
    /\ UNCHANGED <<botVars, notified, queue, processing, cleanup, lastEnq, seen>>

\* a retry test that never gives up
RequeueAlways(item) == TRUE

\* the retry test off by one more: a fifth attempt
RequeueOnceMore(item) == item.retries + 1 <= MaxRetries + 1

\* the except block of the drain loop: is the item whose send raised queued again
Requeue(item) == item.retries + 1 <= MaxRetries

\* a failed item put back in front of the waiting ones
RequeueAtHead(q, item) == <<item>> \o q

\* self.queue.append((chat_id, order)) in the except block
RequeueAtTail(q, item) == Append(q, item)

\* bot.send_message raises
SendFail(c, d) ==
    LET item == drain[c][d].item
        retried == [item EXCEPT !.retries = @ + 1]
    IN  /\ ~AnyUrgent
        /\ drain[c][d].pc = "send"
        /\ IF Requeue(item)
           THEN /\ queue' = [queue EXCEPT ![c] = RequeueAtTail(@, retried)]
                /\ drain' = [drain EXCEPT ![c][d] = [pc |-> "backoff", item |-> NoItem]]
                /\ UNCHANGED <<processing, seen>>
           ELSE /\ NextItem(c, d, queue[c])
                /\ seen' = [seen EXCEPT ![item.chat][item.id] = "dropped"]
        /\ UNCHANGED <<botVars, notified, cleanup, delivered, lastEnq>>

\* asyncio.sleep(1) / asyncio.sleep(2) inside the drain returns
PauseDone(c, d) ==
    /\ ~AnyUrgent
    /\ drain[c][d].pc \in {"sent", "backoff"}
    /\ NextItem(c, d, queue[c])
    /\ UNCHANGED <<botVars, notified, cleanup, delivered, lastEnq, seen>>

\* ------------------------------------------------------------ toggle_polling
FreeSlots(t) == {i \in Slots : task[t][i].pc = "none"}
NewTask == [NoTask EXCEPT !.pc = "start"]

\* an interval that is only set for a chat that has none
KeepInterval(intervals, t) ==
    IF intervals[t] = 0 THEN [intervals EXCEPT ![t] = InitialInterval] ELSE intervals

\* self.polling_intervals[chat_id] = 10
ResetInterval(intervals, t) == [intervals EXCEPT ![t] = InitialInterval]

\* the else branch: polling is switched on
EnablePolling(t) ==
    LET i == CHOOSE i \in FreeSlots(t) : \A j \in FreeSlots(t) : i <= j
    IN  /\ FreeSlots(t) # {}
        /\ polling_active' = [polling_active EXCEPT ![t] = TRUE]
        /\ db_active' = [db_active EXCEPT ![t] = TRUE]
        /\ polling_intervals' = ResetInterval(polling_intervals, t)
        /\ last_recent' = [last_recent EXCEPT ![t] = [order |-> TRUE, settle |-> TRUE]]
        /\ task' = [task EXCEPT ![t][i] = NewTask]
        /\ polling_tasks' = [polling_tasks EXCEPT ![t] = i]
        /\ handler' = [op |-> "enable", chat |-> t, slot |-> i]

\* the if branch: polling is switched off
DisablePolling(t) ==
    LET i == polling_tasks[t]
    IN  /\ task' = IF i # 0 /\ task[t][i].pc # "none"
                   THEN [task EXCEPT ![t][i].cancel = TRUE]
                   ELSE task
        /\ polling_tasks' = [polling_tasks EXCEPT ![t] = 0]
        /\ polling_active' = [polling_active EXCEPT ![t] = FALSE]
        /\ db_active' = [db_active EXCEPT ![t] = FALSE]
        /\ handler' = [op |-> "disable", chat |-> t, slot |-> i]
        /\ UNCHANGED <<polling_intervals, last_recent>>

\* toggle_polling from query.answer() to await query.edit_message_text
Toggle(t) ==
    /\ ~AnyUrgent
    /\ running
    /\ handler = Idle
    /\ IF polling_active[t] THEN DisablePolling(t) ELSE EnablePolling(t)
    /\ UNCHANGED <<running, notified, queue, processing, drain, cleanup, delivered, lastEnq,
                   stopper, seen, merchant_info>>

\* secret keys a chat may have configured
Keys == {"k1", "k2"}

\* handle_merchant_key_change: self.merchant_info[chat_id]["key"] = new_key and
\* save_merchant_info, before the reply is awaited
ChangeKey(t) ==
    /\ ~AnyUrgent
    /\ running
    /\ handler = Idle
    /\ \E k \in Keys \ {merchant_info[t]} : merchant_info' = [merchant_info EXCEPT ![t] = k]
    /\ UNCHANGED <<running, polling_active, db_active, polling_intervals, last_recent,
                   polling_tasks, task, handler, notified, queue, processing, drain, cleanup,
                   delivered, lastEnq, stopper, seen>>

\* ------------------------------------------------- the operator's queries
\* the paid records of a listing
PaidOf(recs) == SelectSeq(recs, LAMBDA r : r.status = "1")

\* for record in <listing>: self.db.mark_*_notified(id, chat_id)
RECURSIVE MarkListed(_, _, _)
MarkListed(chat, recs, table) ==
    IF recs = <<>> THEN table
    ELSE MarkListed(chat, Tail(recs), mark_notified(table, Head(recs).id, chat))

\* a listing none of whose records raises when its status is formatted
Listable(recs) == recs # <<>> /\ \A k \in 1..Len(recs) : recs[k].status # "bad"

\* The operator presses "recent orders": get_orders has returned orders to
\* check_all_orders, which formats the listing and marks every paid order of
\* the response as notified for the chat; nothing is enqueued.  An empty or
\* malformed response ends the handler before the marking.
check_all_orders(t, orders) ==
    /\ ~AnyUrgent
    /\ running
    /\ handler = Idle
    /\ Listable(orders)
    /\ notified' = [notified EXCEPT !.order = MarkListed(t, PaidOf(orders), @)]
    /\ UNCHANGED <<botVars, queueVars, cleanup, lastEnq, seen>>

\* The operator presses "paid orders": check_success_orders marks the paid
\* orders it lists, the first SuccessListed of the response.
check_success_orders(t, orders) ==
    /\ ~AnyUrgent
    /\ running
    /\ handler = Idle
    /\ Listable(orders)
    /\ PaidOf(orders) # <<>>
    /\ notified' = [notified EXCEPT !.order =
                       MarkListed(t, SubSeq(PaidOf(orders), 1, Min(SuccessListed, Len(PaidOf(orders)))), @)]
    /\ UNCHANGED <<botVars, queueVars, cleanup, lastEnq, seen>>

\* The operator presses "settlements": check_settlements marks every
\* completed settlement of the response as notified for the chat.
check_settlements(t, settlements) ==
    /\ ~AnyUrgent
    /\ running
    /\ handler = Idle
    /\ Listable(settlements)
    /\ notified' = [notified EXCEPT !.settle = MarkListed(t, PaidOf(settlements), @)]
    /\ UNCHANGED <<botVars, queueVars, cleanup, lastEnq, seen>>

\* query.edit_message_text returns and toggle_polling with it
ToggleEnd ==
    /\ ~AnyUrgent
    /\ handler # Idle
    /\ handler' = Idle
    /\ UNCHANGED <<running, polling_active, db_active, polling_intervals, last_recent,
                   polling_tasks, task, notified, queue, processing, drain, cleanup, delivered,
                   lastEnq, stopper, seen, merchant_info>>

\* ------------------------------------------------------- PaymentBot.start
\* a start that creates the three loop tasks and restores no polling task
StartNoRestore ==
    /\ ~running
    /\ stopper.pc = "off"
    /\ running' = TRUE
    /\ drain' = [c \in Cats |-> [drain[c] EXCEPT ![0] = [pc |-> "call", item |-> NoItem]]]
    /\ cleanup' = "ready"
    /\ UNCHANGED <<polling_active, polling_intervals, last_recent, task, polling_tasks,
                   db_active, notified, queue, processing, handler, merchant_info, stopper, delivered, lastEnq,
                   seen>>

\* the drain loops, the cleanup loop and a polling task for every chat that
\* get_all_active_polling returns
Start ==
    /\ ~running
    /\ stopper.pc = "off"
    /\ running' = TRUE
    /\ drain' = [c \in Cats |-> [drain[c] EXCEPT ![0] = [pc |-> "call", item |-> NoItem]]]
    /\ cleanup' = "ready"
    /\ polling_active' = [t \in Chats |-> polling_active[t] \/ db_active[t]]
    /\ polling_intervals' =
           [t \in Chats |-> IF db_active[t] THEN InitialInterval ELSE polling_intervals[t]]
    /\ last_recent' =
           [t \in Chats |-> IF db_active[t] THEN [order |-> TRUE, settle |-> TRUE]
                            ELSE last_recent[t]]
    /\ task' = [t \in Chats |-> IF db_active[t] THEN [task[t] EXCEPT ![1] = NewTask] ELSE task[t]]
    /\ polling_tasks' = [t \in Chats |-> IF db_active[t] THEN 1 ELSE polling_tasks[t]]
    /\ UNCHANGED <<db_active, notified, queue, processing, handler, merchant_info, stopper, delivered, lastEnq, seen>>

\* the process is killed and started again: PaymentBot.__init__ on the same
\* database file.  The sink keeps what it has received.
Restart ==
    /\ running' = FALSE
    /\ polling_active' = db_active
    /\ polling_intervals' = [t \in Chats |-> 0]
    /\ last_recent' = [t \in Chats |-> [order |-> FALSE, settle |-> FALSE]]
    /\ polling_tasks' = [t \in Chats |-> 0]
    /\ task' = [t \in Chats |-> [i \in Slots |-> NoTask]]
    /\ queue' = [c \in Cats |-> <<>>]
    /\ processing' = [c \in Cats |-> FALSE]
    /\ drain' = [c \in Cats |-> [d \in Drains |-> [pc |-> "off", item |-> NoItem]]]
    /\ cleanup' = "off"
    /\ handler' = Idle
    /\ stopper' = NoStop
    /\ UNCHANGED <<db_active, merchant_info, notified, delivered, lastEnq, seen>>

\* ------------------------------------------------------- PaymentBot.stop
\* task.cancel() on one of the two process_*_notifications_loop tasks, and
\* the CancelledError at the await it is suspended in: the finally block of
\* process_notifications clears the flag when the loop task is the drain
StopLoop(c) ==
    /\ drain' = [drain EXCEPT ![c][0] = [pc |-> "off", item |-> NoItem]]
    /\ processing' = IF drain[c][0].pc \in {"send", "sent", "backoff"}
                     THEN [processing EXCEPT ![c] = FALSE]
                     ELSE processing
    \* a request cut off inside bot.send_message has reached the sink or not
    /\ \E got \in (IF drain[c][0].pc = "send" THEN BOOLEAN ELSE {FALSE}) :
          delivered' = IF got THEN [delivered EXCEPT ![drain[c][0].item.uid] = Min(SentCap, @ + 1)]
                       ELSE delivered

\* stop() up to "await self.notification_task"
StopBegin ==
    /\ ~AnyUrgent
    /\ running
    /\ stopper.pc = "off"
    /\ running' = FALSE
    /\ StopLoop("order")
    /\ stopper' = [NoStop EXCEPT !.pc = "order"]
    /\ UNCHANGED <<polling_active, db_active, polling_intervals, last_recent, polling_tasks, task,
                   handler, merchant_info, notified, queue, cleanup, lastEnq, seen>>

\* ... up to "await self.settlement_notification_task"
StopSettle ==
    /\ stopper.pc = "order"
    /\ StopLoop("settle")
    /\ stopper' = [stopper EXCEPT !.pc = "settle"]
    /\ UNCHANGED <<running, polling_active, db_active, polling_intervals, last_recent,
                   polling_tasks, task, handler, merchant_info, notified, queue, cleanup, lastEnq, seen>>

\* ... up to "await self.cleanup_task"
StopCleanup ==
    /\ stopper.pc = "settle"
    /\ cleanup' = "off"
    /\ stopper' = [stopper EXCEPT !.pc = "cleanup"]
    /\ UNCHANGED <<running, polling_active, db_active, polling_intervals, last_recent,
                   polling_tasks, task, handler, merchant_info, notified, queueVars, lastEnq, seen>>

\* for chat_id, task in list(self.polling_tasks.items()): task.cancel(), up to
\* "await task"; after the last one, up to "await self.application.updater.stop()"
StopPolls ==
    LET todo == IF stopper.pc = "cleanup" THEN {t \in Chats : polling_tasks[t] # 0}
                ELSE stopper.todo
    IN  /\ stopper.pc \in {"cleanup", "polls"}
        /\ StopReady
        /\ IF todo = {}
           THEN /\ stopper' = [NoStop EXCEPT !.pc = "app"]
                /\ UNCHANGED task
           ELSE \E t \in todo :
                    LET i == polling_tasks[t] IN
                    /\ stopper' = [pc |-> "polls", todo |-> todo \ {t}, chat |-> t, slot |-> i]
                    /\ task' = IF task[t][i].pc # "none"
                               THEN [task EXCEPT ![t][i].cancel = TRUE]
                               ELSE task
        /\ UNCHANGED <<running, polling_active, db_active, polling_intervals, last_recent,
                       polling_tasks, handler, merchant_info, notified, queueVars, cleanup, lastEnq, seen>>

\* the application has stopped and shut down: stop() returns
StopEnd ==
    /\ ~AnyUrgent
    /\ stopper.pc = "app"
    /\ stopper' = [stopper EXCEPT !.pc = "done"]
    /\ UNCHANGED <<running, polling_active, db_active, polling_intervals, last_recent,
                   polling_tasks, task, handler, merchant_info, notified, queueVars, cleanup, lastEnq, seen>>

StopStep == StopBegin \/ StopSettle \/ StopCleanup \/ StopPolls \/ StopEnd

\* ----------------------------------------------------------- cleanup_loop
\* first iteration of cleanup_loop
CleanupRun ==
    /\ cleanup = "ready"
    /\ cleanup' = "sleep"
    /\ notified' = IF running THEN [c \in Cats |-> clean_old_records(notified[c])] ELSE notified
    /\ UNCHANGED <<botVars, queueVars, lastEnq, seen>>

\* asyncio.sleep(24 * 60 * 60) returns, next iteration
CleanupWake ==
    /\ ~AnyUrgent
    /\ cleanup = "sleep"
    /\ cleanup' = IF running THEN "sleep" ELSE "off"
    /\ notified' = IF running THEN [c \in Cats |-> clean_old_records(notified[c])] ELSE notified
    /\ UNCHANGED <<botVars, queueVars, lastEnq, seen>>

\* -------------------------------------------------------------------- time
\* more than 300 s pass without a discovery
Elapse5Min ==
    /\ ~AnyUrgent
    /\ last_recent' = [t \in Chats |-> [order |-> FALSE, settle |-> FALSE]]
    /\ UNCHANGED <<running, polling_active, db_active, polling_intervals, polling_tasks, task,
                   handler, merchant_info, stopper, notified, queueVars, cleanup, lastEnq, seen>>

\* 15 days pass: every row now in the dedup tables is older than the retention
Elapse15Days ==
    /\ ~AnyUrgent
    /\ notified' = [c \in Cats |-> [id \in RecIds[c] |->
                       IF notified[c][id] = NoRow THEN NoRow
                       ELSE [notified[c][id] EXCEPT !.old = TRUE]]]
    /\ last_recent' = [t \in Chats |-> [order |-> FALSE, settle |-> FALSE]]
    /\ lastEnq' = [t \in Chats |-> {}]
    /\ UNCHANGED <<running, polling_active, db_active, polling_intervals, polling_tasks, task,
                   handler, merchant_info, stopper, queueVars, cleanup, seen>>

\* ------------------------------------------------------------ specification
\* PaymentBot.__init__ on a new database
Init ==
    /\ running = FALSE
    /\ polling_active = [t \in Chats |-> FALSE]
    /\ db_active = [t \in Chats |-> FALSE]
    /\ polling_intervals = [t \in Chats |-> 0]
    /\ last_recent = [t \in Chats |-> [order |-> FALSE, settle |-> FALSE]]
    /\ polling_tasks = [t \in Chats |-> 0]
    /\ task = [t \in Chats |-> [i \in Slots |-> NoTask]]
    /\ notified = [c \in Cats |-> [id \in RecIds[c] |-> NoRow]]
    /\ queue = [c \in Cats |-> <<>>]
    /\ processing = [c \in Cats |-> FALSE]
    /\ drain = [c \in Cats |-> [d \in Drains |-> [pc |-> "off", item |-> NoItem]]]
    /\ cleanup = "off"
    /\ handler = Idle
    /\ merchant_info = [t \in Chats |-> "k1"]
    /\ delivered = [u \in Uids |-> 0]
    /\ lastEnq = [t \in Chats |-> {}]
    /\ stopper = NoStop
    /\ seen = [t \in Chats |-> [id \in AllIds |-> "none"]]

PollStep ==
    \E t \in Chats, i \in Slots :
        \/ TaskStart(t, i)
        \/ Wake(t, i)
        \/ \E o \in Responses("order"), s \in Responses("settle") : FetchReturn(t, i, o, s)
        \/ CancelDeliver(t, i)
        \/ CloseDone(t, i)

DrainStep ==
    \E c \in Cats :
        \/ LoopWake(c)
        \/ LoopWakeAhead(c)
        \/ \E d \in Drains : DrainCall(c, d) \/ SendOk(c, d) \/ SendFail(c, d) \/ PauseDone(c, d)

Next ==
    \/ Start
    \/ Restart
    \/ StopStep
    \/ \E t \in Chats : Toggle(t)
    \/ ToggleEnd
    \/ \E t \in Chats : ChangeKey(t)
    \/ \E t \in Chats, o \in Responses("order") : check_all_orders(t, o) \/ check_success_orders(t, o)
    \/ \E t \in Chats, s \in Responses("settle") : check_settlements(t, s)
    \/ PollStep
    \/ DrainStep
    \/ CleanupRun
    \/ CleanupWake
    \/ Elapse5Min
    \/ Elapse15Days

Spec == Init /\ [][Next]_vars

\* ------------------------------------------------- focused specifications
\* The product of all chats, tasks, responses and sink outcomes is too large
\* to enumerate, so each group of properties is checked on the part of the
\* system it is about: the same actions, with fewer chats, fewer gateway
\* responses, or a sink that is faster than the pollers.

\* poll-loop steps of the chats CS, the gateway answering from RO and RS
PollSteps(CS, RO, RS) ==
    \E t \in CS, i \in Slots :
        \/ TaskStart(t, i)
        \/ Wake(t, i)
        \/ \E o \in RO, s \in RS : FetchReturn(t, i, o, s)

CancelSteps(CS) == \E t \in CS, i \in Slots : CancelDeliver(t, i) \/ CloseDone(t, i)

DrainBusy == \E c \in Cats, d \in Drains : drain[c][d].pc \in {"send", "sent", "backoff"}
DrainCalls == \E c \in Cats, d \in Drains : DrainCall(c, d)
DeliverOk == \E c \in Cats, d \in Drains : SendOk(c, d) \/ PauseDone(c, d)

Paid(id) == <<Rec(id, "1")>>

\* SpecDedup: two chats configured with the same merchant account, both
\* switched on, the gateway returning paid records, the sink never failing,
\* within the retention window.
DedupOrders == {Paid("X1")}
DedupSettles == {Paid("S1")}
NextDedup ==
    \/ Start
    \/ Restart
    \/ \E t \in Chats : ~polling_active[t] /\ Toggle(t)
    \/ ToggleEnd
    \/ PollSteps(Chats, DedupOrders, DedupSettles)
    \/ DrainCalls
    \/ DeliverOk
    \/ \E c \in Cats : LoopWake(c)
    \/ CleanupRun
SpecDedup == Init /\ [][NextDedup]_vars

\* SpecInterval: one chat, switched on and never off, every kind of response
\* (none, paid, pending, malformed), idle time and purges; every item is
\* delivered before the next poll step.
IntervalOrders == {<<>>, Paid("X1"), <<Rec("X1", "0")>>, <<Rec("X1", "bad")>>}
IntervalSettles == {<<>>, Paid("S1")}
NextInterval ==
    \/ DrainBusy /\ DeliverOk
    \/ ~DrainBusy /\ Start
    \/ ~DrainBusy /\ Restart
    \/ ~DrainBusy /\ ~polling_active["A"] /\ Toggle("A")
    \/ ~DrainBusy /\ ToggleEnd
    \/ ~DrainBusy /\ PollSteps({"A"}, IntervalOrders, IntervalSettles)
    \/ ~DrainBusy /\ DrainCalls
    \/ ~DrainBusy /\ CleanupRun
    \/ ~DrainBusy /\ CleanupWake
    \/ ~DrainBusy /\ Elapse5Min
    \/ ~DrainBusy /\ Elapse15Days
SpecInterval == Init /\ [][NextInterval]_vars

\* SpecQueue: one chat, switched on, whose cycles find up to three records;
\* the sink may fail any send; both drain loops and the drains the cycles spawn.
QueueOrders == {Paid("X1"), Paid("X2"), Paid("X1") \o Paid("X2")}
QueueSettles == {Paid("S1")}
NextQueue ==
    \/ Start
    \/ ~polling_active["A"] /\ Toggle("A")
    \/ ToggleEnd
    \/ PollSteps({"A"}, QueueOrders, QueueSettles)
    \/ DrainStep
    \/ CleanupRun
SpecQueue == Init /\ [][NextQueue]_vars

\* every item has been sent or dropped
QueuesEmpty == ~DrainBusy /\ \A c \in Cats : queue[c] = <<>>

\* SpecRetention: one chat, switched on, whose gateway keeps listing the same
\* paid records for longer than the retention of the dedup tables; the sink
\* may fail any send; the daily cleanup runs; the 15 days pass while nothing
\* waits to be sent.
RetentionOrders == {Paid("X1")}
RetentionSettles == {<<>>}
NextRetention ==
    \/ Start
    \/ ~polling_active["A"] /\ Toggle("A")
    \/ ToggleEnd
    \/ PollSteps({"A"}, RetentionOrders, RetentionSettles)
    \/ DrainStep
    \/ CleanupRun
    \/ CleanupWake
    \/ QueuesEmpty /\ Elapse15Days
SpecRetention == Init /\ [][NextRetention]_vars

\* SpecSupervisor: one chat switched on and off at any time, process
\* restarts, cycles that fail or find a record; every item is delivered
\* before the next step.
SupervisorOrders == {<<>>, Paid("X1")}
SupervisorSettles == {Paid("S1")}
NextSupervisor ==
    \/ DrainBusy /\ DeliverOk
    \/ ~DrainBusy /\ Start
    \/ ~DrainBusy /\ Restart
    \/ ~DrainBusy /\ Toggle("A")
    \/ ~DrainBusy /\ ToggleEnd
    \/ ~DrainBusy /\ PollSteps({"A"}, SupervisorOrders, SupervisorSettles)
    \/ ~DrainBusy /\ CancelSteps({"A"})
    \/ ~DrainBusy /\ DrainCalls
    \/ ~DrainBusy /\ CleanupRun
SpecSupervisor == Init /\ [][NextSupervisor]_vars

\* SpecShutdown: two chats switched on, cycles that find a record, a sink
\* that never fails, and the engine stopped at any time and started again.
ShutdownOrders == {Paid("X1")}
ShutdownSettles == {<<Rec("S1", "0")>>}
NextShutdown ==
    \/ Start
    \/ Restart
    \/ StopStep
    \/ \E t \in Chats : ~polling_active[t] /\ Toggle(t)
    \/ ToggleEnd
    \/ PollSteps(Chats, ShutdownOrders, ShutdownSettles)
    \/ CancelSteps(Chats)
    \/ DrainCalls
    \/ DeliverOk
    \/ CleanupRun
SpecShutdown == Init /\ [][NextShutdown]_vars

\* SpecGraceful: one chat, switched on, whose cycles find a record; the sink
\* may fail any send; the process is stopped at any time, and restarted.
GracefulOrders == {Paid("X1")}
GracefulSettles == {<<>>, Paid("S1")}
NextGraceful ==
    \/ Start
    \/ Restart
    \/ StopStep
    \/ ~polling_active["A"] /\ Toggle("A")
    \/ ToggleEnd
    \/ PollSteps({"A"}, GracefulOrders, GracefulSettles)
    \/ CancelSteps({"A"})
    \/ DrainStep
    \/ CleanupRun
SpecGraceful == Init /\ [][NextGraceful]_vars

\* SpecCredentials: one chat, switched on, whose operator changes the secret
\* key at any time while the chat is polled; cycles that fail or find a
\* record; every item is delivered before the next step.
CredentialsOrders == {<<>>, Paid("X1")}
CredentialsSettles == {<<>>, Paid("S1")}
NextCredentials ==
    \/ DrainBusy /\ DeliverOk
    \/ ~DrainBusy /\ Start
    \/ ~DrainBusy /\ ~polling_active["A"] /\ Toggle("A")
    \/ ~DrainBusy /\ ToggleEnd
    \/ ~DrainBusy /\ polling_tasks["A"] # 0 /\ ChangeKey("A")
    \/ ~DrainBusy /\ PollSteps({"A"}, CredentialsOrders, CredentialsSettles)
    \/ ~DrainBusy /\ DrainCalls
    \/ ~DrainBusy /\ CleanupRun
SpecCredentials == Init /\ [][NextCredentials]_vars

\* -------------------------------------------------------------- properties
\* a polling task that has not been cancelled and has not returned
Polling(tk) == tk.pc # "none" /\ ~tk.cancel
\* the drains of a queue that are inside the while loop of process_notifications
Draining(c) == {d \in Drains : drain[c][d].pc \in {"send", "sent", "backoff"}}
\* the step is a poll cycle of chat t running from the gateway's answer to its sleep
CycleOf(t) == \E i \in Slots : task[t][i].pc = "fetch" /\ task'[t][i].pc = "sleep"
\* the step is drain d of queue c leaving bot.send_message with an exception
FailedSend(c, d) == drain[c][d].pc = "send" /\ drain'[c][d] # drain[c][d] /\ drain'[c][d].pc # "sent"
InQueue(c, u) == \E k \in 1..Len(queue[c]) : queue[c][k].uid = u

\* C1: once a record id is marked notified for a chat, is_notified of that
\* chat and id stays true in every later state, restarts included.
C1_MarkedStaysNotified ==
    [][\A c \in Cats : \A id \in RecIds[c] : \A t \in Chats :
          is_notified(notified[c], id, t) => is_notified(notified'[c], id, t)]_vars

\* C2: two consecutive poll cycles of one chat never both enqueue the same
\* record: a paid record present in both responses is enqueued at most once.
C2_EnqueuedOnce ==
    [][\A t \in Chats : CycleOf(t) => lastEnq[t] \cap lastEnq'[t] = {}]_vars

\* C3: every record waiting in a notification queue for a chat is marked
\* notified for that chat in the dedup table.
C3_QueuedAreMarked ==
    \A c \in Cats : \A k \in 1..Len(queue[c]) :
        is_notified(notified[c], queue[c][k].id, queue[c][k].chat)

\* C4: in every reachable state the polling interval of every chat that has
\* one lies between 5 and 60 seconds.
C4_IntervalBounds ==
    \A t \in Chats :
        polling_intervals[t] # 0 =>
            MinInterval <= polling_intervals[t] /\ polling_intervals[t] <= ErrorCap

\* the interval at its upper bound after error backoff, the task asleep on it
C4_AtErrorCap ==
    \E i \in Slots : task["A"][i].pc = "sleep" /\ polling_intervals["A"] = ErrorCap

\* C5, as the specification states it: an item is not queued again after its
\* third failed send, so no queued item records three failures.
C5_DroppedAtThirdFailure ==
    \A c \in Cats : \A k \in 1..Len(queue[c]) : queue[c][k].retries < MaxRetries

\* C5, as the code behaves: a failed send appends the item to the tail with
\* its count raised while it has failed fewer than three times before, and
\* drops it at the fourth failure; no item ever records more than three.
C5_DroppedAtFourthFailure ==
    /\ [](\A c \in Cats : \A k \in 1..Len(queue[c]) : queue[c][k].retries <= MaxRetries)
    /\ [][\A c \in Cats : \A d \in Drains :
             FailedSend(c, d) =>
                 LET item == drain[c][d].item IN
                 IF item.retries < MaxRetries
                 THEN queue'[c] = Append(queue[c], [item EXCEPT !.retries = @ + 1])
                 ELSE \A k \in 1..Len(queue'[c]) : queue'[c][k].uid # item.uid]_vars

\* an item back in the queue after its third failed send
C5_QueuedAfterThreeFailures ==
    \E c \in Cats : \E k \in 1..Len(queue[c]) : queue[c][k].retries = MaxRetries

\* C6: an item the sink has accepted was accepted exactly once and is in no
\* queue afterwards, however many sends of it failed before.
C6_DeliveredOnce ==
    \A u \in Uids :
        delivered[u] >= 1 => delivered[u] = 1 /\ \A c \in Cats : ~InQueue(c, u)

\* an item accepted by the sink after exactly two failed sends
C6_SentAfterTwoFailures ==
    \E c \in Cats : \E d \in Drains :
        /\ drain[c][d].pc = "sent"
        /\ drain[c][d].item.retries = 2
        /\ delivered[drain[c][d].item.uid] = 1

\* C7: a chat never has two polling tasks that are running at the same time.
C7_OneTaskPerTenant ==
    \A t \in Chats : Cardinality({i \in Slots : Polling(task[t][i])}) <= 1

\* C8: at most one drain of a queue is inside the loop, the processing flag
\* is set exactly while one is, and a call made while the flag is set returns
\* leaving the deque and the flag as they are.
C8_OneDrain ==
    /\ [](\A c \in Cats : /\ Cardinality(Draining(c)) <= 1
                          /\ processing[c] <=> Draining(c) # {})
    /\ [][\A c \in Cats : \A d \in Drains :
             (processing[c] /\ drain[c][d].pc = "call" /\ drain'[c][d].pc # "call") =>
                 /\ queue'[c] = queue[c]
                 /\ processing'[c]
                 /\ drain'[c][d].pc = Exit(d)]_vars

\* a call of process_notifications about to run while another drain of the
\* queue is inside the loop and records are waiting
C8_CallWhileDraining ==
    \E c \in Cats : \E d \in Drains :
        /\ drain[c][d].pc = "call"
        /\ Draining(c) # {}
        /\ queue[c] # <<>>

\* C9: when the call that switches a chat off returns, the task it cancelled
\* has ended and the stored flag is false.
C9_DisableWaits ==
    [][(handler.op = "disable" /\ handler' = Idle) =>
          /\ handler.slot # 0 => task'[handler.chat][handler.slot].pc = "none"
          /\ ~db_active'[handler.chat]]_vars

\* C10: a polling task takes its first step with the interval at 10 s and
\* its error counter at zero.
C10_FreshStart ==
    [][\A t \in Chats : \A i \in Slots :
          (task[t][i].pc = "start" /\ task'[t][i].pc = "fetch") =>
              polling_intervals'[t] = InitialInterval /\ task'[t][i].errs = 0]_vars

\* a task just created while the one cancelled before it, which had counted
\* errors, is still closing its connection
C10_StartBesideCancelled ==
    \E i \in Slots : \E j \in Slots :
        /\ task["A"][i].pc = "start"
        /\ task["A"][j].pc = "closing"
        /\ task["A"][j].errs > 0

\* C11: the step that starts the engine creates and tracks a polling task,
\* with the interval at 10 s, for every chat whose stored flag is true.
C11_StartRestores ==
    [][(~running /\ running') =>
          \A t \in Chats :
              db_active[t] =>
                  /\ polling_tasks'[t] # 0
                  /\ task'[t][polling_tasks'[t]].pc = "start"
                  /\ polling_intervals'[t] = InitialInterval]_vars

\* the engine just started, with the task of a chat whose flag was stored
C11_RestoredAtStart ==
    /\ running
    /\ drain.order[0].pc = "call"
    /\ db_active["A"]
    /\ polling_tasks["A"] # 0
    /\ task["A"][polling_tasks["A"]].pc = "start"

\* C12: from the call of stop() to the end of the process no stored
\* polling flag changes, so the next start restores the same chats.
C12_ShutdownKeepsFlags ==
    [][stopper'.pc # "off" => db_active' = db_active]_vars

\* C13: when stop() has returned, no polling task and no drain of either
\* queue is still executing.
C13_AllStopped ==
    stopper.pc = "done" =>
        /\ \A t \in Chats : \A i \in Slots : task[t][i].pc = "none"
        /\ \A c \in Cats : \A d \in Drains : drain[c][d].pc = "off"

\* the step is a poll cycle of task i of chat t in which get_orders and
\* get_settlements both returned []: every attempt failed (timeout, HTTP
\* error, malformed JSON) or the answer's code was not 1
EmptyCycle(t, i) == FetchReturn(t, i, <<>>, <<>>)

\* C14: a cycle in which the gateway fails counts one consecutive error; the
\* fifth in a row sets the interval to min(60, 2 * interval) and resets the
\* counter, the first four leave the interval as it is.
C14_GatewayErrorsBackOff ==
    [][\A t \in Chats : \A i \in Slots :
          EmptyCycle(t, i) =>
              IF task[t][i].errs + 1 = max_errors
              THEN /\ polling_intervals'[t] = Backoff(polling_intervals[t])
                   /\ task'[t][i].errs = 0
              ELSE /\ polling_intervals'[t] = polling_intervals[t]
                   /\ task'[t][i].errs = task[t][i].errs + 1]_vars

\* C15: a cycle that enqueues at least one new record does not leave the
\* chat's interval longer than it found it.
C15_DiscoverySpeedsUp ==
    [][\A t \in Chats :
          (CycleOf(t) /\ lastEnq'[t] # {}) => polling_intervals'[t] <= polling_intervals[t]]_vars

\* C16: a cycle in which the gateway answers with a code other than 1 does
\* not raise the consecutive-error counter and does not double the interval:
\* the interval stays, or takes the idle step.
C16_NoDataIsNoError ==
    [][\A t \in Chats : \A i \in Slots :
          EmptyCycle(t, i) =>
              /\ task'[t][i].errs <= task[t][i].errs
              /\ polling_intervals'[t] \in {polling_intervals[t], Decay(polling_intervals[t])}]_vars


\* C17: a cycle whose response lists the new paid orders X1 then X2 marks both
\* for the chat and appends exactly one item for each to the order queue, X1
\* before X2, behind what was queued.
C17_BatchEnqueuedInOrder ==
    [][\A t \in Chats, i \in Slots, s \in QueueSettles :
          (/\ FetchReturn(t, i, Paid("X1") \o Paid("X2"), s)
           /\ ~is_notified(notified.order, "X1", t)
           /\ ~is_notified(notified.order, "X2", t))
          => LET n == Len(queue.order) IN
             /\ is_notified(notified'.order, "X1", t)
             /\ is_notified(notified'.order, "X2", t)
             /\ Len(queue'.order) = n + 2
             /\ SubSeq(queue'.order, 1, n) = queue.order
             /\ queue'.order[n + 1].chat = t /\ queue'.order[n + 1].id = "X1"
             /\ queue'.order[n + 1].retries = 0
             /\ queue'.order[n + 2].chat = t /\ queue'.order[n + 2].id = "X2"
             /\ queue'.order[n + 2].retries = 0
             /\ queue'.order[n + 1].uid # queue'.order[n + 2].uid]_vars

\* the cycle has just enqueued X1 and X2 for chat A: both wait, X1 first
C17_TwoQueuedInOrder ==
    /\ lastEnq["A"] = {"X1", "X2", "S1"} \/ lastEnq["A"] = {"X1", "X2"}
    /\ Len(queue.order) = 2
    /\ queue.order[1].id = "X1" /\ queue.order[2].id = "X2"
    /\ queue.order[1].retries = 0 /\ queue.order[2].retries = 0
    /\ is_notified(notified.order, "X1", "A") /\ is_notified(notified.order, "X2", "A")

\* C18: in each queue a drain always takes the item at the head, new items
\* join at the tail, and an item whose send failed and is retried goes
\* behind every item then queued, with the order of the others unchanged.
C18_FifoRetryAtTail ==
    [][\A c \in Cats :
          /\ \A d \in Drains :
                (drain'[c][d].pc = "send" /\ drain'[c][d].item # drain[c][d].item)
                => /\ queue[c] # <<>>
                   /\ drain'[c][d].item = Head(queue[c])
                   /\ queue'[c] = Tail(queue[c])
          /\ \A d \in Drains :
                (FailedSend(c, d) /\ drain'[c][d].pc = "backoff")
                => /\ Len(queue'[c]) = Len(queue[c]) + 1
                   /\ SubSeq(queue'[c], 1, Len(queue[c])) = queue[c]
                   /\ queue'[c][Len(queue'[c])] =
                         [drain[c][d].item EXCEPT !.retries = @ + 1]
          /\ \/ queue[c] # <<>> /\ queue'[c] = Tail(queue[c])
             \/ /\ Len(queue'[c]) >= Len(queue[c])
                /\ SubSeq(queue'[c], 1, Len(queue[c])) = queue[c]]_vars

\* X1 failed once while X2 waited: X2 is now ahead of the retried X1
C18_RetriedBehindWaiting ==
    /\ Len(queue.order) = 2
    /\ queue.order[1].id = "X2" /\ queue.order[1].retries = 0
    /\ queue.order[2].id = "X1" /\ queue.order[2].retries = 1
    /\ \E d \in Drains : drain.order[d].pc = "backoff"

\* C19: a record of a chat whose item was dropped after its last failed send
\* is not enqueued again by a later cycle of that chat.
C19_DroppedStaysDropped ==
    [][\A t \in Chats :
          CycleOf(t) => \A id \in lastEnq'[t] : seen[t][id] # "dropped"]_vars

\* C20: a cycle enqueues for a chat only records that were never enqueued for
\* that chat before, whatever the cleanup has purged in between.
C20_PurgeKeepsSeen ==
    [][\A t \in Chats :
          CycleOf(t) => \A id \in lastEnq'[t] : seen[t][id] = "none"]_vars

\* the step takes the item that drain d of queue c had popped out of its hands
Released(c, d) == drain[c][d].pc = "send" /\ drain'[c][d].item # drain[c][d].item

\* C21: once stop() has been called, an item that a drain loop had popped and
\* was sending leaves the loop only delivered or put back in the queue; the
\* cancellation of the loop (which logs one line for the loop and none for
\* the item) never takes it away undelivered.
C21_InFlightNotLost ==
    [][\A c \in Cats :
          (stopper'.pc # "off" /\ Released(c, 0))
          => LET u == drain[c][0].item.uid IN
             \/ delivered'[u] = delivered[u] + 1
             \/ InQueue(c, u)']_vars

\* C22: whatever the gateway returned (nothing, a malformed record, a record
\* whose examination raises), the cycle ends in the sleep of the loop with
\* both polling flags of the chat as they were, and the sleep is followed by
\* the next cycle; a polling task ends only cancelled, with the flag of its
\* chat off, or with the process.
C22_FailedCycleKeepsPolling ==
    [][\A t \in Chats : \A i \in Slots :
          /\ (task[t][i].pc = "fetch" /\ ~task[t][i].cancel /\ task'[t][i] # task[t][i] /\ running')
             => /\ task'[t][i].pc = "sleep"
                /\ polling_active'[t] = polling_active[t]
                /\ db_active'[t] = db_active[t]
          /\ (task[t][i].pc = "sleep" /\ ~task[t][i].cancel /\ polling_active[t]
                /\ task'[t][i] # task[t][i] /\ running')
             => task'[t][i].pc = "fetch"
          /\ (task[t][i].pc # "none" /\ task'[t][i].pc = "none")
             => task[t][i].cancel \/ ~polling_active[t] \/ ~running']_vars

\* a task in a new cycle after three failed ones in a row, its chat still on
C22_PollingAfterFailures ==
    \E i \in Slots :
        /\ task["A"][i].pc = "fetch" /\ task["A"][i].errs = 3
        /\ polling_active["A"] /\ db_active["A"]

\* C23: a cycle that has the new paid order X2 to enqueue can run while a
\* drain of the order queue is sending, pausing after a send or waiting to
\* retry, and the step that enqueues leaves every such drain where it is and
\* delivers nothing.
C23_EnqueueNeverWaits ==
    /\ [](\A t \in Chats : \A i \in Slots :
            (/\ task[t][i].pc = "fetch" /\ ~task[t][i].cancel
             /\ ~AnyUrgent
             /\ Draining("order") # {}
             /\ ~is_notified(notified.order, "X2", t)
             /\ Len(FreeUids) >= 2
             /\ FreeAdhoc(drain.order) # {} /\ FreeAdhoc(drain.settle) # {})
            => ENABLED (\E s \in QueueSettles : FetchReturn(t, i, Paid("X2"), s)))
    /\ [][\A t \in Chats :
            (CycleOf(t) /\ lastEnq'[t] # {})
            => /\ \A c \in Cats : \A d \in Draining(c) : drain'[c][d] = drain[c][d]
               /\ \A u \in LiveUids \cap Uids : delivered'[u] = delivered[u]]_vars

\* X2 was enqueued by a cycle that ran while X1, enqueued by an earlier one,
\* was being sent and had not reached the sink
C23_EnqueuedDuringSend ==
    /\ lastEnq["A"] = {"X2"}
    /\ InQueue("order", 2) \/ InQueue("order", 1)
    /\ \E k \in 1..Len(queue.order) : queue.order[k].id = "X2" /\ queue.order[k].retries = 0
    /\ \E d \in Drains :
          /\ drain.order[d].pc = "send" /\ drain.order[d].item.id = "X1"
          /\ delivered[drain.order[d].item.uid] = 0

\* C24: a cycle that enqueues at least one record leaves the interval of its
\* chat at max(5, interval // 2) of the interval it started with.
C24_HalvedOncePerCycle ==
    [][\A t \in Chats :
          (CycleOf(t) /\ lastEnq'[t] # {})
          => polling_intervals'[t] = Halve(polling_intervals[t])]_vars

\* the step is a poll cycle of task i of chat t
CycleAt(t, i) == task[t][i].pc = "fetch" /\ task'[t][i].pc = "sleep"

\* responses none of whose records raises when it is examined
WellFormed(R) == {r \in R : \A k \in 1..Len(r) : r[k].status # "bad"}

\* C25: a cycle that finds nothing new, whether the lists were empty or held
\* only pending and already notified records, adds 5 s to the interval (up to
\* 30 s) when the last discovery of either category is more than 300 s old,
\* and leaves the interval alone otherwise.
C25_IdleDecay ==
    [][\A t \in Chats : \A i \in Slots :
          CycleAt(t, i) =>
          \A o \in WellFormed(IntervalOrders) : \A s \in WellFormed(IntervalSettles) :
              (FetchReturn(t, i, o, s) /\ lastEnq'[t] = {})
              => polling_intervals'[t] =
                     IF ~last_recent[t].order /\ ~last_recent[t].settle
                     THEN Decay(polling_intervals[t])
                     ELSE polling_intervals[t]]_vars

\* C26: a cycle in which the gateway answered the order request with a
\* well-formed list of records, and the settlement request with a well-formed
\* list or none, leaves the consecutive-error counter of the task at 0.
C26_SuccessResetsErrors ==
    [][\A t \in Chats : \A i \in Slots :
          CycleAt(t, i) =>
          \A o \in WellFormed(IntervalOrders) \ {<<>>} : \A s \in WellFormed(IntervalSettles) :
              FetchReturn(t, i, o, s) => task'[t][i].errs = 0]_vars

\* the records of response r that are paid and have no row of chat t in table
Qualifying(r, table, t) ==
    {r[k].id : k \in {j \in 1..Len(r) : r[j].status = "1" /\ ~is_notified(table, r[j].id, t)}}

\* C27: in a cycle whose records are well formed, the orders marked and
\* enqueued for the chat are exactly those of the response with status 1 and
\* no row of the chat when examined, and likewise the settlements; the row of
\* every other record, pending ones included, is left as it was.
C27_SelectsPaidAndNew ==
    [][\A t \in Chats : \A i \in Slots :
          CycleAt(t, i) =>
          \A o \in WellFormed(IntervalOrders) : \A s \in WellFormed(IntervalSettles) :
              FetchReturn(t, i, o, s)
              => LET qo == Qualifying(o, notified.order, t)
                     qs == Qualifying(s, notified.settle, t)
                 IN  /\ lastEnq'[t] = qo \cup qs
                     /\ \A id \in qo : is_notified(notified'.order, id, t)
                     /\ \A id \in qs : is_notified(notified'.settle, id, t)
                     /\ \A id \in RecIds.order \ qo : notified'.order[id] = notified.order[id]
                     /\ \A id \in RecIds.settle \ qs : notified'.settle[id] = notified.settle[id]
                     /\ {queue'.order[k].id : k \in Len(queue.order) + 1 .. Len(queue'.order)} = qo
                     /\ {queue'.settle[k].id : k \in Len(queue.settle) + 1 .. Len(queue'.settle)} = qs
                     /\ Len(queue'.order) = Len(queue.order) + Cardinality(qo)
                     /\ Len(queue'.settle) = Len(queue.settle) + Cardinality(qs)]_vars

\* a cycle has just examined the pending order X1: no row, nothing queued
C27_PendingSkipped ==
    \E i \in Slots :
        /\ task["A"][i].pc = "sleep" /\ task["A"][i].nso = "empty"
        /\ notified.order["X1"] = NoRow
        /\ lastEnq["A"] = {}
        /\ queue.order = <<>>

\* C28: a cycle whose records are well formed makes the last discovery of a
\* category recent exactly if it found a new record of that category, and
\* otherwise leaves the age of the last discovery of that category as it was.
C28_StampOnDiscovery ==
    [][\A t \in Chats : \A i \in Slots :
          CycleAt(t, i) =>
          \A o \in WellFormed(IntervalOrders) : \A s \in WellFormed(IntervalSettles) :
              FetchReturn(t, i, o, s)
              => /\ last_recent'[t].order =
                       IF Qualifying(o, notified.order, t) # {} THEN TRUE ELSE last_recent[t].order
                 /\ last_recent'[t].settle =
                       IF Qualifying(s, notified.settle, t) # {} THEN TRUE ELSE last_recent[t].settle]_vars

\* more than 300 s after the last discovery a cycle has found the settlement
\* S1 and no order: only the settlement time is recent
C28_SettlementStamped ==
    /\ lastEnq["A"] = {"S1"}
    /\ last_recent["A"].settle /\ ~last_recent["A"].order

\* C29: a drain never goes from one bot.send_message straight into the next:
\* a step that puts an item in a drain's hands for sending starts from a
\* drain that is not itself in a send (it is in a pause, or has just been
\* called).
C29_PauseBetweenSends ==
    [][\A c \in Cats : \A d \in Drains :
          (drain'[c][d].pc = "send" /\ drain'[c][d].item # drain[c][d].item)
          => drain[c][d].pc # "send"]_vars

\* C30: every iteration of a polling loop calls the gateway with the key the
\* registry holds for the chat when the iteration starts, and a change of the
\* key touches no polling task: none is cancelled, created or replaced.
C30_CycleUsesCurrentKey ==
    [][/\ \A t \in Chats : \A i \in Slots :
            (task[t][i].pc \in {"start", "sleep"} /\ task'[t][i].pc = "fetch")
            => task'[t][i].key = merchant_info[t]
       /\ merchant_info' # merchant_info
            => /\ polling_tasks' = polling_tasks
               /\ \A t \in Chats : \A i \in Slots :
                     task'[t][i].pc = task[t][i].pc /\ task'[t][i].cancel = task[t][i].cancel]_vars

\* the task created while the key was k1 is in a later cycle, which called
\* the gateway with k2, the key set meanwhile
C30_NewKeyInLaterCycle ==
    \E i \in Slots :
        /\ task["A"][i].pc = "fetch" /\ task["A"][i].key = "k2"
        /\ merchant_info["A"] = "k2"
        /\ task["A"][i].errs = 2

\* C31: while a task of a chat is polling, the interval of the chat changes
\* only in a step that is a cycle of that chat, and its last discovery only
\* becomes recent in such a step; the error counter of a polling task changes
\* only in its own cycle.
C31_OwnLoopWrites ==
    [][\A t \in Chats :
          (running' /\ \E i \in Slots : Polling(task[t][i]) /\ task[t][i].pc # "start")
          => /\ polling_intervals'[t] # polling_intervals[t] => CycleOf(t)
             /\ (last_recent'[t].order /\ ~last_recent[t].order) => CycleOf(t)
             /\ (last_recent'[t].settle /\ ~last_recent[t].settle) => CycleOf(t)
             /\ \A i \in Slots :
                   (Polling(task[t][i]) /\ Polling(task'[t][i]) /\ task'[t][i].errs # task[t][i].errs)
                   => CycleAt(t, i)]_vars

\* C32: a poll cycle of one chat, with the marks it writes, never changes
\* whether a record counts as notified for a different chat.
C32_MarksIsolatedPerTenant ==
    [][\A t2 \in Chats : CycleOf(t2) =>
          \A t1 \in Chats \ {t2} : \A c \in Cats : \A id \in RecIds[c] :
              is_notified(notified'[c], id, t1) = is_notified(notified[c], id, t1)]_vars

\* SpecMalformed: one chat, switched on and never off, whose order responses
\* hold a paid record alone or followed by a record whose status is not a
\* number; every item is delivered before the next poll step.
MalformedOrders == {Paid("X1"), <<Rec("X1", "1"), Rec("X2", "bad")>>}
MalformedSettles == {<<>>, Paid("S1")}
NextMalformed ==
    \/ DrainBusy /\ DeliverOk
    \/ ~DrainBusy /\ Start
    \/ ~DrainBusy /\ ~polling_active["A"] /\ Toggle("A")
    \/ ~DrainBusy /\ ToggleEnd
    \/ ~DrainBusy /\ PollSteps({"A"}, MalformedOrders, MalformedSettles)
    \/ ~DrainBusy /\ DrainCalls
    \/ ~DrainBusy /\ CleanupRun
SpecMalformed == Init /\ [][NextMalformed]_vars

\* C33: every record a poll cycle newly marks as notified for its chat is
\* enqueued by that same cycle, also when the cycle raises after the marking.
C33_MarkedAreEnqueued ==
    [][\A t \in Chats : CycleOf(t) =>
          \A c \in Cats : \A id \in RecIds[c] :
              (is_notified(notified'[c], id, t) /\ ~is_notified(notified[c], id, t))
              => id \in lastEnq'[t]]_vars

\* SpecOperator: one chat, switched on and never off, whose operator also
\* lists the orders and the settlements by hand; every item is delivered
\* before the next poll step.
OperatorOrders == {Paid("X1"), <<Rec("X1", "0")>>}
OperatorSettles == {<<>>, Paid("S1")}
NextOperator ==
    \/ DrainBusy /\ DeliverOk
    \/ ~DrainBusy /\ Start
    \/ ~DrainBusy /\ ~polling_active["A"] /\ Toggle("A")
    \/ ~DrainBusy /\ ToggleEnd
    \/ ~DrainBusy /\ \E o \in OperatorOrders : check_all_orders("A", o)
    \/ ~DrainBusy /\ \E o \in OperatorOrders : check_success_orders("A", o)
    \/ ~DrainBusy /\ \E s \in OperatorSettles : check_settlements("A", s)
    \/ ~DrainBusy /\ PollSteps({"A"}, OperatorOrders, OperatorSettles)
    \/ ~DrainBusy /\ DrainCalls
    \/ ~DrainBusy /\ CleanupRun
SpecOperator == Init /\ [][NextOperator]_vars

\* the ids of the paid records of a response
PaidIds(recs) == {recs[k].id : k \in {j \in 1..Len(recs) : recs[j].status = "1"}}

\* C34: after every step, a record marked notified for a chat has been
\* enqueued for that chat; and a cycle that is returned a paid record never
\* enqueued for its chat enqueues it, whatever the operator listed before.
C34_EntriesOnlyForEnqueued ==
    [][\A t \in Chats :
          /\ \A c \in Cats : \A id \in RecIds[c] :
                 is_notified(notified'[c], id, t) => seen'[t][id] # "none"
          /\ \A i \in Slots :
                 CycleAt(t, i) =>
                 \A o \in OperatorOrders : \A s \in OperatorSettles :
                     FetchReturn(t, i, o, s)
                     => \A id \in PaidIds(o) \cup PaidIds(s) :
                            seen[t][id] = "none" => id \in lastEnq'[t]]_vars

\* C35: the step in which a cancelled task of a chat ends while a newer,
\* uncancelled task of the chat is tracked leaves both polling flags of the
\* chat as the enable set them, and an uncancelled tracked task does not end
\* while the engine runs.
C35_OldCleanupKeepsFlags ==
    [][\A t \in Chats : \A i \in Slots :
          (running /\ running' /\ task[t][i].pc # "none" /\ task'[t][i].pc = "none"
             /\ polling_tasks[t] # 0 /\ Polling(task[t][polling_tasks[t]]))
          => /\ polling_tasks[t] # i
             /\ polling_active'[t] = polling_active[t]
             /\ db_active'[t] = db_active[t]]_vars

\* C39: whenever the engine runs and no toggle, start or stop is in progress,
\* the in-memory polling flag of every chat equals its stored flag, and is
\* true exactly when an unfinished polling task is tracked for the chat.
C39_FlagsAndTaskAgree ==
    (running /\ handler = Idle /\ stopper.pc = "off") =>
        \A t \in Chats :
            /\ polling_active[t] = db_active[t]
            /\ polling_active[t] <=> (polling_tasks[t] # 0 /\ task[t][polling_tasks[t]].pc # "none")

\* C37: a cycle that enqueues a record or lowers the interval is no error:
\* its task's error counter is zero after it and the interval is not raised.
C37_DiscoveryIsNoError ==
    [][\A t \in Chats : \A i \in Slots :
          (CycleAt(t, i) /\ (lastEnq'[t] # {} \/ polling_intervals'[t] < polling_intervals[t]))
          => /\ task'[t][i].errs = 0
             /\ task[t][i].errs < max_errors - 1
                  \/ polling_intervals'[t] \in {Halve(polling_intervals[t]), Halve(Halve(polling_intervals[t]))}]_vars

\* C38: a cycle that is returned an order as pending leaves the order table
\* as it was and enqueues nothing for it; a cycle that is returned the order
\* as paid enqueues it exactly if no earlier cycle of the chat enqueued it.
C38_PendingThenPaidOnce ==
    [][\A t \in Chats : \A i \in Slots :
          CycleAt(t, i) =>
          \A s \in IntervalSettles :
              /\ FetchReturn(t, i, <<Rec("X1", "0")>>, s)
                 => notified'.order = notified.order /\ "X1" \notin lastEnq'[t]
              /\ FetchReturn(t, i, Paid("X1"), s)
                 => ("X1" \in lastEnq'[t] <=> seen[t]["X1"] = "none")]_vars

\* SpecSinkDown: one chat, switched on and never off, whose cycles find up to
\* three records, each once, and enqueue nothing while a drain is inside its
\* loop; every bot.send_message raises.  The event loop
\* runs every callback that is ready and every sleep and every send returns:
\* each step of each drain, the first step of a polling task and the cleanup
\* are weakly fair.
SinkDownOrders == {Paid("X1"), Paid("X1") \o Paid("X2")}
SinkDownSettles == {<<>>, Paid("S1")}
DrainFailing(c, d) == DrainCall(c, d) \/ SendFail(c, d) \/ PauseDone(c, d)
NextSinkDown ==
    \/ Start
    \/ ~polling_active["A"] /\ Toggle("A")
    \/ ToggleEnd
    \/ ~DrainBusy /\ PollSteps({"A"}, SinkDownOrders, SinkDownSettles)
    \/ \E c \in Cats, d \in Drains : DrainFailing(c, d)
    \/ \E c \in Cats : LoopWake(c) \/ LoopWakeAhead(c)
    \/ CleanupRun
FairSinkDown ==
    /\ \A c \in Cats : \A d \in Drains : WF_vars(DrainFailing(c, d))
    /\ \A i \in Slots : WF_vars(TaskStart("A", i))
    /\ WF_vars(CleanupRun)
SpecSinkDown == Init /\ [][NextSinkDown]_vars /\ FairSinkDown

\* C36: with every send failing, every item in a queue or being sent has a
\* retry count from 0 to 3 (so is attempted at most 4 times), a drain that
\* leaves its loop leaves the queue empty and processing false, and every
\* drain that is inside its loop eventually leaves it.
C36_FailingDrainEnds ==
    /\ [](\A c \in Cats :
            /\ \A k \in 1..Len(queue[c]) : queue[c][k].retries \in 0..MaxRetries
            /\ \A d \in Drains : drain[c][d].item.retries \in 0..MaxRetries)
    /\ [][\A c \in Cats : \A d \in Drains :
             (d \in Draining(c) /\ drain'[c][d].pc = Exit(d))
             => queue'[c] = <<>> /\ ~processing'[c]]_vars
    /\ \A c \in Cats : \A d \in Drains : (d \in Draining(c)) ~> (d \notin Draining(c))

\* every record was dropped after its fourth failed send and nothing is left
C36_AllDroppedAndIdle ==
    /\ \A id \in AllIds : seen["A"][id] = "dropped"
    /\ \A c \in Cats : queue[c] = <<>> /\ ~processing[c] /\ Draining(c) = {}
=============================================================================
